---- MODULE Spec2Model ----
\* A model of the image quantization program (src/main.go): palette
\* construction, Bayer dithering, nearest-colour mapping and the pixel loop of
\* QuantizeImage.
\*
\* Numbers.  Go's int is modelled by unbounded integers (no value here comes
\* near 2^63).  uint8 arithmetic keeps its width (% 256).  float64 values are
\* modelled exactly as rationals with a known denominator:
\*   - a Bayer coefficient t/N^2 - 0.5 (N in {2,4,8}) is a multiple of 1/128
\*     and is carried as the integer coef128 = 128 * coef (exact in float64);
\*   - a dithered channel c + (255/p) * coef is carried as a numerator over
\*     the denominator 128 * p.  Its exact value is an integer only when
\*     coef = 0 (255 is odd and |coef128| <= 64), and otherwise lies at least
\*     1/(128 p) away from every integer, while the float64 rounding error of
\*     the three operations is below 2e-13: comparing with 0 and 255 and
\*     truncating to uint8 give the same result on the float64 value and on
\*     the exact rational for every p < 10^10;
\*   - a channel mean r/n is truncated, which is floor(r/n) for the exact
\*     integers r and n.
\* A run-time panic of the Go program is a result with panic = TRUE.
EXTENDS Integers, Sequences, FiniteSets, TLC

VARIABLES
    call,            \* harness: the function applied last and its arguments
    ret,             \* harness: its result, [panic, val]
    ranges,          \* harness: the <<begin, end>> ranges PaletteFromImage handed to MeanColorOfRange
    img,             \* QuantizeImage: the source image [w, h, pix]
    paletteMaxSize,  \* QuantizeImage: argument
    bayerMatSize,    \* QuantizeImage: argument
    pc,              \* QuantizeImage: position ("idle", "start", "loop", "done", "panic")
    palette,         \* QuantizeImage: local palette
    outImage,        \* QuantizeImage: local outImage (pixels in raster order)
    x,               \* QuantizeImage: loop variable x
    y,               \* QuantizeImage: loop variable y
    fault,           \* the run-time panic message, "" when none
    owner,           \* parallel pixel loop: the worker owning each pixel index
    written          \* number of outImage.Set calls made for each pixel index

vars == <<call, ret, ranges, img, paletteMaxSize, bayerMatSize, pc, palette,
          outImage, x, y, fault, owner, written>>

-----------------------------------------------------------------------------
\* Bounds of the model.

MaxCoord == 9        \* BayerCoefficient / BayerDithering harness: x, y in -MaxCoord .. MaxCoord
MaxPaletteSize == 4  \* BayerDithering harness: paletteSize in 1 .. MaxPaletteSize
MaxPixels == 5       \* PaletteFromImage harness: images of 0 .. MaxPixels pixels
MaxK == 4            \* requested palette size in -1 .. MaxK
MaxPal == 3          \* NearestColor harness: palettes of 0 .. MaxPal entries
MaxW == 2            \* QuantizeImage: image width in 0 .. MaxW
MaxH == 2            \* QuantizeImage: image height in 1 .. MaxH
MaxParPixels == 4    \* parallel pixel loop: images of 1 .. MaxParPixels pixels

-----------------------------------------------------------------------------
\* Go integer arithmetic.

Abs(a) == IF a < 0 THEN -a ELSE a

\* Go's a / b on ints, b # 0: the quotient truncated toward zero.
GoDiv(a, b) ==
    LET q == Abs(a) \div Abs(b)
    IN  IF (a < 0) = (b < 0) THEN q ELSE -q

\* Go's a % b on ints, b # 0: the remainder has the sign of a.
GoRem(a, b) ==
    LET r == Abs(a) % Abs(b)
    IN  IF a < 0 THEN -r ELSE r

Min2(a, b) == IF a < b THEN a ELSE b
Max2(a, b) == IF a > b THEN a ELSE b

-----------------------------------------------------------------------------
\* General functions.

\* ClampU8 on uint8 operands.
ClampU8(v, low, high) ==
    IF v < low THEN low
    ELSE IF v > high THEN high
    ELSE v

\* ClampF64, on numerators over a common denominator.
ClampF64(v, low, high) ==
    IF v < low THEN low
    ELSE IF v > high THEN high
    ELSE v

ClampBelowInt_NoClamp(v, low) == v

ClampBelowInt(v, low) ==
    IF v < low THEN low ELSE v

ClampAboveInt(v, high) ==
    IF v > high THEN high ELSE v

-----------------------------------------------------------------------------
\* Colours: color.RGBA, four uint8 channels.

RGBA(r, g, b, a) == [R |-> r, G |-> g, B |-> b, A |-> a]
Gray(v) == RGBA(v, v, v, 255)

\* uint8(v) of a non-negative integer v: the low 8 bits.
U8(v) == v % 256

\* c1.R + c2.R on uint8 operands: the sum wraps modulo 256.
AddU8(a, b) == (a + b) % 256

Add(c1, c2) ==
    RGBA(ClampU8(AddU8(c1.R, c2.R), 0, 255),
         ClampU8(AddU8(c1.G, c2.G), 0, 255),
         ClampU8(AddU8(c1.B, c2.B), 0, 255),
         255)

\* ColorDistance is math.Sqrt of this integer radicand (at most 3 * 255^2).
\* math.Sqrt is correctly rounded and two distinct integers below 2^18 have
\* square roots more than 10^-3 apart, so the float64 distances compare
\* exactly as their radicands do; the distance is carried as the radicand.
ColorDistance(c1, c2) ==
    LET dr == (c1.R - c2.R) * (c1.R - c2.R)
        dg == (c1.G - c2.G) * (c1.G - c2.G)
        db == (c1.B - c2.B) * (c1.B - c2.B)
    IN  dr + dg + db

RECURSIVE NearestScan_LastWins(_, _, _, _, _)
NearestScan_LastWins(c, pal, i, minD, nearest) ==
    IF i > Len(pal) THEN nearest
    ELSE LET d == ColorDistance(c, pal[i])
         IN  IF d <= minD
             THEN NearestScan_LastWins(c, pal, i + 1, d, pal[i])
             ELSE NearestScan_LastWins(c, pal, i + 1, minD, nearest)

\* The loop of NearestColor; i is the 1-based index of palette[i-1].
RECURSIVE NearestScan(_, _, _, _, _)
NearestScan(c, pal, i, minD, nearest) ==
    IF i > Len(pal) THEN nearest
    ELSE LET d == ColorDistance(c, pal[i])
         IN  IF d < minD
             THEN NearestScan(c, pal, i + 1, d, pal[i])
             ELSE NearestScan(c, pal, i + 1, minD, nearest)

\* NearestColor: palette[0] of an empty palette is an index-out-of-range panic.
NearestColor(c, pal) ==
    IF Len(pal) = 0
    THEN [panic |-> TRUE, val |-> RGBA(0, 0, 0, 0)]
    ELSE [panic |-> FALSE,
          val |-> NearestScan(c, pal, 2, ColorDistance(c, pal[1]), pal[1])]

-----------------------------------------------------------------------------
\* Bayer matrices (row-major) and the dithering.

Mat2 == <<0, 2, 3, 1>>

Mat4 == <<0, 8, 2, 10,
          12, 4, 14, 6,
          3, 11, 1, 9,
          15, 7, 13, 5>>

Mat8 == <<0, 32, 8, 40, 2, 34, 10, 42,
          48, 16, 56, 24, 50, 18, 58, 26,
          12, 44, 4, 36, 14, 46, 6, 38,
          60, 28, 52, 20, 62, 30, 54, 22,
          3, 35, 11, 43, 1, 33, 9, 41,
          51, 19, 59, 27, 49, 17, 57, 25,
          15, 47, 7, 39, 13, 45, 5, 37,
          63, 31, 55, 23, 61, 29, 53, 21>>

\* The size BayerCoefficient works with.
BayerSize(n) == IF n # 2 /\ n # 4 /\ n # 8 THEN 8 ELSE n

BayerMat(n) == IF n = 2 THEN Mat2 ELSE IF n = 4 THEN Mat4 ELSE Mat8

\* i := (y%bayerMatSize)*bayerMatSize + (x % bayerMatSize)
BayerIndex(px, py, n) == GoRem(py, n) * n + GoRem(px, n)

\* BayerCoefficient; val is 128 * coef.  mat[i] with i outside the array is an
\* index-out-of-range panic.
BayerCoefficient(px, py, matSize) ==
    LET n == BayerSize(matSize)
        i == BayerIndex(px, py, n)
    IN  IF i < 0 \/ i >= n * n
        THEN [panic |-> TRUE, val |-> 0]
        ELSE [panic |-> FALSE,
              val |-> (2 * BayerMat(n)[i + 1] - n * n) * (64 \div (n * n))]

\* uint8(ClampF64(c + k, 0, 255)) for the channel value c and k = (255/p) * coef,
\* p >= 1: the numerator of c + k over 128 * p, clamped, then truncated.
DitherChannel(c, coef128, p) ==
    LET d == 128 * p
        num == c * d + 255 * coef128
    IN  ClampF64(num, 0, 255 * d) \div d

\* BayerDithering, for paletteSize >= 1.
BayerDithering(c, px, py, paletteSize, matSize) ==
    LET coef == BayerCoefficient(px, py, matSize)
    IN  IF coef.panic
        THEN [panic |-> TRUE, val |-> RGBA(0, 0, 0, 0)]
        ELSE [panic |-> FALSE,
              val |-> RGBA(DitherChannel(c.R, coef.val, paletteSize),
                           DitherChannel(c.G, coef.val, paletteSize),
                           DitherChannel(c.B, coef.val, paletteSize),
                           255)]

-----------------------------------------------------------------------------
\* Images.  An image is [w, h, pix]: its bounds are (0,0)-(w,h), as for every
\* image image.Decode returns, and pix[y*w + x + 1] is what img.At(x, y).RGBA()
\* returns: four 16-bit channel values.

PixIndex(im, px, py) == py * im.w + px + 1

\* Color.RGBA() of an 8-bit colour: each channel v becomes v | v << 8.
RGBA16(c) == [R |-> c.R * 257, G |-> c.G * 257, B |-> c.B * 257, A |-> c.A * 257]

\* PixelColor: uint8() of each 16-bit channel.
PixelColor(im, px, py) ==
    LET p == im.pix[PixIndex(im, px, py)]
    IN  RGBA(U8(p.R), U8(p.G), U8(p.B), U8(p.A))

\* image.NewRGBA(img.Bounds()): every pixel is the zero colour.
NewRGBA(im) == [i \in 1..(im.w * im.h) |-> RGBA(0, 0, 0, 0)]

-----------------------------------------------------------------------------
\* Palette functions.

\* The 1-based place sort.SliceStable, with the less function
\* pixels[i].R < pixels[j].R, gives element i of s: after every element of
\* smaller red, and after the earlier elements of equal red (the sort is stable).
RedRank(s, i) ==
    Cardinality({j \in 1..Len(s) : s[j].R < s[i].R \/ (s[j].R = s[i].R /\ j < i)}) + 1

SliceStableByRed(s) ==
    [p \in 1..Len(s) |-> s[CHOOSE i \in 1..Len(s) : RedRank(s, i) = p]]

\* RedSortedImagePixels: the pixels in raster order, stably sorted by red.
RedSortedImagePixels(im) ==
    LET raster == [i \in 1..(im.w * im.h) |->
                     RGBA(U8(im.pix[i].R), U8(im.pix[i].G), U8(im.pix[i].B), U8(im.pix[i].A))]
    IN  SliceStableByRed(raster)

RECURSIVE SumChannel(_, _, _, _)
SumChannel(pixels, ch, j, end) ==
    IF j >= end THEN 0
    ELSE pixels[j + 1][ch] + SumChannel(pixels, ch, j + 1, end)

MeanColorOfRange_OffByOne(pixels, begin, end) ==
    LET n == end - begin + 1
    IN  RGBA(U8(SumChannel(pixels, "R", begin, end) \div n),
             U8(SumChannel(pixels, "G", begin, end) \div n),
             U8(SumChannel(pixels, "B", begin, end) \div n),
             255)

\* MeanColorOfRange over pixels[begin:end], end > begin.
MeanColorOfRange(pixels, begin, end) ==
    LET n == end - begin
    IN  RGBA(U8(SumChannel(pixels, "R", begin, end) \div n),
             U8(SumChannel(pixels, "G", begin, end) \div n),
             U8(SumChannel(pixels, "B", begin, end) \div n),
             255)

\* The range of bucket #i.
BucketRange(pixels, bucketSize, i) ==
    LET begin == i * bucketSize
    IN  <<begin, ClampAboveInt(begin + bucketSize, Len(pixels))>>

\* The loop of PaletteFromImage, from bucket #i on.
RECURSIVE PaletteLoop(_, _, _, _)
PaletteLoop(pixels, estimatedPaletteSize, bucketSize, i) ==
    IF i >= estimatedPaletteSize THEN <<>>
    ELSE LET r == BucketRange(pixels, bucketSize, i)
         IN  <<MeanColorOfRange(pixels, r[1], r[2])>>
             \o PaletteLoop(pixels, estimatedPaletteSize, bucketSize, i + 1)

\* The ranges the loop of PaletteFromImage hands to MeanColorOfRange.
RECURSIVE RangesLoop(_, _, _, _)
RangesLoop(pixels, estimatedPaletteSize, bucketSize, i) ==
    IF i >= estimatedPaletteSize THEN <<>>
    ELSE <<BucketRange(pixels, bucketSize, i)>>
         \o RangesLoop(pixels, estimatedPaletteSize, bucketSize, i + 1)

\* PaletteFromImage.  len(pixels) / estimatedPaletteSize with a zero divisor
\* is an integer-divide-by-zero panic.
PaletteFromImage(im, maxSize) ==
    LET k == ClampBelowInt(maxSize, 2)
        pixels == RedSortedImagePixels(im)
        estimatedPaletteSize == ClampAboveInt(k, Len(pixels))
    IN  IF estimatedPaletteSize = 0
        THEN [panic |-> TRUE, val |-> <<>>, ranges |-> <<>>]
        ELSE LET bucketSize == GoDiv(Len(pixels), estimatedPaletteSize)
             IN  [panic |-> FALSE,
                  val |-> PaletteLoop(pixels, estimatedPaletteSize, bucketSize, 0),
                  ranges |-> RangesLoop(pixels, estimatedPaletteSize, bucketSize, 0)]

-----------------------------------------------------------------------------
\* QuantizeImage.

LoopBody_ReadsOutput(im, pal, matSize, out, px, py) ==
    LET i == PixIndex(im, px, py)
        s == PixelColor(im, px, py)
        c == IF i > 1 /\ out[i - 1].A # 0
             THEN RGBA((s.R + out[i - 1].R) \div 2, (s.G + out[i - 1].G) \div 2,
                       (s.B + out[i - 1].B) \div 2, s.A)
             ELSE s
        d == BayerDithering(c, px, py, Len(pal), matSize)
        n == NearestColor(d.val, pal)
    IN  IF Len(pal) = 0 \/ d.panic
        THEN [panic |-> TRUE, out |-> out]
        ELSE [panic |-> FALSE, out |-> [out EXCEPT ![i] = n.val]]

\* The body of the pixel loop at (px, py): the new contents of outImage.
\* With an empty palette NearestColor panics whatever BayerDithering returned
\* (its float division by zero does not panic), so that case is decided first.
LoopBody(im, pal, matSize, out, px, py) ==
    IF Len(pal) = 0
    THEN [panic |-> TRUE, out |-> out]
    ELSE LET c == PixelColor(im, px, py)
             d == BayerDithering(c, px, py, Len(pal), matSize)
             n == NearestColor(d.val, pal)
         IN  IF d.panic
             THEN [panic |-> TRUE, out |-> out]
             ELSE [panic |-> FALSE, out |-> [out EXCEPT ![PixIndex(im, px, py)] = n.val]]

\* The two nested loops of QuantizeImage from pixel index i on, in raster order.
RECURSIVE RasterLoop(_, _, _, _, _)
RasterLoop(im, pal, matSize, out, i) ==
    IF i > im.w * im.h THEN out
    ELSE RasterLoop(im, pal, matSize,
                    LoopBody(im, pal, matSize, out, (i - 1) % im.w, (i - 1) \div im.w).out,
                    i + 1)

-----------------------------------------------------------------------------
\* Inputs.

SeqsUpTo(S, n) == UNION {[1..m -> S] : m \in 0..n}

Orders == {-2, 0, 2, 3, 4, 8, 16}
DitherOrders == {2, 3, 4, 8}
Coords == (-MaxCoord)..MaxCoord
DitherColors == {Gray(0), Gray(128), Gray(255), RGBA(10, 128, 250, 255)}
NearestColors == {Gray(0), Gray(200), Gray(255), RGBA(200, 200, 200, 0)}
QueryColors == {Gray(100), Gray(200), RGBA(0, 0, 0, 7)}
AddColors == {RGBA(r, g, 56, a) : r \in {0, 100, 200}, g \in {1, 255}, a \in {0, 255}}
PaletteColors == {Gray(0), Gray(255), RGBA(255, 0, 0, 255)}
PipelineColors == {Gray(100), RGBA(200, 50, 0, 255)}
Workers == {1, 2}

\* The image of width w and height h showing the 8-bit colours cs in raster order.
Image(w, h, cs) == [w |-> w, h |-> h, pix |-> [i \in 1..Len(cs) |-> RGBA16(cs[i])]]

RowImages == {Image(Len(cs), 1, cs) : cs \in SeqsUpTo(PaletteColors, MaxPixels)}

PipelineImages ==
    UNION {{Image(w, h, cs) : cs \in [1..(w * h) -> PipelineColors]} :
           w \in 0..MaxW, h \in 1..MaxH}

ParallelShapes ==
    {s \in (1..MaxParPixels) \X (1..MaxParPixels) : s[1] * s[2] <= MaxParPixels}

ParallelImages ==
    UNION {{Image(s[1], s[2], cs) : cs \in [1..(s[1] * s[2]) -> PipelineColors]} :
           s \in ParallelShapes}

GrayImage == Image(8, 8, [i \in 1..64 |-> Gray(128)])

CallInputs ==
    {[fn |-> "BayerCoefficient", x |-> px, y |-> py, bayerMatSize |-> n] :
        px \in Coords, py \in Coords, n \in Orders}
    \cup
    {[fn |-> "BayerDithering", c |-> c, x |-> px, y |-> py, paletteSize |-> p, bayerMatSize |-> n] :
        c \in DitherColors, px \in Coords, py \in Coords, p \in 1..MaxPaletteSize, n \in DitherOrders}
    \cup
    {[fn |-> "NearestColor", c |-> c, palette |-> pal] :
        c \in QueryColors, pal \in SeqsUpTo(NearestColors, MaxPal)}
    \cup
    {[fn |-> "Add", c1 |-> c1, c2 |-> c2] : c1 \in AddColors, c2 \in AddColors}
    \cup
    {[fn |-> "PaletteFromImage", img |-> im, paletteMaxSize |-> k] :
        im \in RowImages, k \in (-1)..MaxK}

-----------------------------------------------------------------------------
\* The functions applied to drawn arguments.

NoImage == [w |-> 0, h |-> 0, pix |-> <<>>]

PipelineIdle ==
    /\ img = NoImage /\ paletteMaxSize = 0 /\ bayerMatSize = 0 /\ pc = "idle"
    /\ palette = <<>> /\ outImage = <<>> /\ x = 0 /\ y = 0 /\ fault = ""
    /\ owner = <<>> /\ written = <<>>

PipelineVars == <<img, paletteMaxSize, bayerMatSize, pc, palette, outImage,
                  x, y, fault, owner, written>>

InitCalls ==
    /\ call \in CallInputs
    /\ ret = [done |-> FALSE, panic |-> FALSE, val |-> 0]
    /\ ranges = <<>>
    /\ PipelineIdle

Pending(fn) == call.fn = fn /\ ~ret.done

ApplyBayerCoefficient ==
    /\ Pending("BayerCoefficient")
    /\ LET r == BayerCoefficient(call.x, call.y, call.bayerMatSize)
       IN  ret' = [done |-> TRUE, panic |-> r.panic, val |-> r.val]
    /\ UNCHANGED <<call, ranges, PipelineVars>>

ApplyBayerDithering ==
    /\ Pending("BayerDithering")
    /\ LET r == BayerDithering(call.c, call.x, call.y, call.paletteSize, call.bayerMatSize)
       IN  ret' = [done |-> TRUE, panic |-> r.panic, val |-> r.val]
    /\ UNCHANGED <<call, ranges, PipelineVars>>

ApplyNearestColor ==
    /\ Pending("NearestColor")
    /\ LET r == NearestColor(call.c, call.palette)
       IN  ret' = [done |-> TRUE, panic |-> r.panic, val |-> r.val]
    /\ UNCHANGED <<call, ranges, PipelineVars>>

ApplyAdd ==
    /\ Pending("Add")
    /\ ret' = [done |-> TRUE, panic |-> FALSE, val |-> Add(call.c1, call.c2)]
    /\ UNCHANGED <<call, ranges, PipelineVars>>

ApplyPaletteFromImage ==
    /\ Pending("PaletteFromImage")
    /\ LET r == PaletteFromImage(call.img, call.paletteMaxSize)
       IN  /\ ret' = [done |-> TRUE, panic |-> r.panic, val |-> r.val]
           /\ ranges' = r.ranges
    /\ UNCHANGED <<call, PipelineVars>>

NextCalls ==
    \/ ApplyBayerCoefficient
    \/ ApplyBayerDithering
    \/ ApplyNearestColor
    \/ ApplyAdd
    \/ ApplyPaletteFromImage

SpecCalls == InitCalls /\ [][NextCalls]_vars

-----------------------------------------------------------------------------
\* QuantizeImage as a state machine: the palette is built, then the pixel loop
\* runs one iteration per step.

InitRun(images, sizes, orders) ==
    /\ img \in images
    /\ paletteMaxSize \in sizes
    /\ bayerMatSize \in orders
    /\ call = [fn |-> "QuantizeImage", img |-> img,
               paletteMaxSize |-> paletteMaxSize, bayerMatSize |-> bayerMatSize]
    /\ ret = [done |-> FALSE, panic |-> FALSE, val |-> 0]
    /\ ranges = <<>>
    /\ pc = "start"
    /\ palette = <<>>
    /\ outImage = <<>>
    /\ x = 0
    /\ y = 0
    /\ fault = ""
    /\ written = [i \in 1..(img.w * img.h) |-> <<>>]

\* palette := PaletteFromImage(img, paletteMaxSize); outImage := image.NewRGBA(img.Bounds())
BuildPalette ==
    /\ pc = "start"
    /\ LET r == PaletteFromImage(img, paletteMaxSize)
       IN  IF r.panic
           THEN /\ pc' = "panic"
                /\ fault' = "integer divide by zero"
                /\ UNCHANGED <<palette, outImage, ranges>>
           ELSE /\ pc' = "loop"
                /\ palette' = r.val
                /\ ranges' = r.ranges
                /\ outImage' = NewRGBA(img)
                /\ UNCHANGED fault
    /\ UNCHANGED <<call, ret, img, paletteMaxSize, bayerMatSize, x, y, owner, written>>

\* One iteration of the inner loop, at (x, y), then x++ (and y++ at the end of a row).
PixelStep ==
    /\ pc = "loop"
    /\ y < img.h
    /\ x < img.w
    /\ LET r == LoopBody(img, palette, bayerMatSize, outImage, x, y)
       IN  IF r.panic
           THEN /\ pc' = "panic"
                /\ fault' = "index out of range"
                /\ UNCHANGED <<outImage, x, y, written>>
           ELSE /\ outImage' = r.out
                /\ written' = [written EXCEPT ![PixIndex(img, x, y)] = Append(@, 0)]
                /\ IF x + 1 < img.w
                   THEN x' = x + 1 /\ y' = y
                   ELSE x' = 0 /\ y' = y + 1
                /\ UNCHANGED <<pc, fault>>
    /\ UNCHANGED <<call, ret, ranges, img, paletteMaxSize, bayerMatSize, palette, owner>>

\* return outImage
Return ==
    /\ pc = "loop"
    /\ (y >= img.h \/ img.w = 0)
    /\ pc' = "done"
    /\ ret' = [done |-> TRUE, panic |-> FALSE, val |-> outImage]
    /\ UNCHANGED <<call, ranges, img, paletteMaxSize, bayerMatSize, palette, outImage,
                   x, y, fault, owner, written>>

NextQuantize == BuildPalette \/ PixelStep \/ Return

InitQuantize ==
    /\ InitRun(PipelineImages, (-1)..MaxK, DitherOrders)
    /\ owner = <<>>

SpecQuantize == InitQuantize /\ [][NextQuantize]_vars

\* The 8x8 uniformly gray image with a palette of two.
InitGray ==
    /\ InitRun({GrayImage}, {2}, {2, 4, 8})
    /\ owner = <<>>

SpecGray == InitGray /\ [][NextQuantize]_vars

-----------------------------------------------------------------------------
\* The pixel loop with its iterations distributed over workers: every pixel
\* index has one owner, and a worker runs the loop body for the indexes it
\* owns, in any order and interleaved with the other workers.

InitParallel ==
    /\ InitRun(ParallelImages, {1, 3}, {2, 4})
    /\ owner \in [1..(img.w * img.h) -> Workers]

WorkerStep(wk) ==
    /\ pc = "loop"
    /\ \E i \in 1..(img.w * img.h) :
          /\ owner[i] = wk
          /\ written[i] = <<>>
          /\ LET r == LoopBody(img, palette, bayerMatSize, outImage,
                               (i - 1) % img.w, (i - 1) \div img.w)
             IN  /\ ~r.panic
                 /\ outImage' = r.out
                 /\ written' = [written EXCEPT ![i] = Append(@, wk)]
    /\ UNCHANGED <<call, ret, ranges, img, paletteMaxSize, bayerMatSize, pc, palette,
                   x, y, fault, owner>>

\* Every worker has finished its indexes: return outImage.
Join ==
    /\ pc = "loop"
    /\ \A i \in 1..(img.w * img.h) : written[i] # <<>>
    /\ pc' = "done"
    /\ ret' = [done |-> TRUE, panic |-> FALSE, val |-> outImage]
    /\ UNCHANGED <<call, ranges, img, paletteMaxSize, bayerMatSize, palette, outImage,
                   x, y, fault, owner, written>>

NextParallel == BuildPalette \/ (\E wk \in Workers : WorkerStep(wk)) \/ Join

SpecParallel == InitParallel /\ [][NextParallel]_vars

-----------------------------------------------------------------------------
\* Properties.

Returned(fn) == call.fn = fn /\ ret.done

\* x mod n of the mathematics: the residue in 0 .. n-1.
Mod(a, n) == CHOOSE r \in 0..(n - 1) : \E q \in (-Abs(a))..Abs(a) : a = q * n + r

PixelCount(im) == im.w * im.h

Range(s) == {s[i] : i \in 1..Len(s)}

\* C1: PaletteFromImage returns, for every image and every paletteMaxSize k,
\* a palette of exactly min(max(k, 2), pixelCount) entries.
C1_PaletteLength ==
    Returned("PaletteFromImage") =>
        /\ ~ret.panic
        /\ Len(ret.val) = Min2(Max2(call.paletteMaxSize, 2), PixelCount(call.img))

\* PaletteFromImage on an image of at least one pixel: the length of C1.
PaletteLengthOfNonEmptyImage ==
    (Returned("PaletteFromImage") /\ PixelCount(call.img) >= 1) =>
        /\ ~ret.panic
        /\ Len(ret.val) = Min2(Max2(call.paletteMaxSize, 2), PixelCount(call.img))

\* NearestColor is about to be called, or has been called, in this run.
NearestColorReached ==
    \/ pc = "loop" /\ y < img.h /\ x < img.w
    \/ \E i \in DOMAIN written : written[i] # <<>>
    \/ fault = "index out of range"

\* C2 as stated: whenever QuantizeImage reaches NearestColor the palette has
\* at least 2 entries, and NearestColor never faults on an empty palette.
C2_PaletteAtLeastTwo ==
    NearestColorReached =>
        /\ Len(palette) >= 2
        /\ fault # "index out of range"

\* C2 amended: whenever QuantizeImage reaches NearestColor the palette has
\* min(max(paletteMaxSize, 2), pixelCount) >= 1 entries, and NearestColor
\* never faults on an empty palette.
C2_PaletteNonEmpty ==
    NearestColorReached =>
        /\ Len(palette) = Min2(Max2(paletteMaxSize, 2), PixelCount(img))
        /\ Len(palette) >= 1
        /\ fault # "index out of range"

C2_Witness ==
    /\ \E i \in DOMAIN written : written[i] # <<>>
    /\ Len(palette) = 1
    /\ paletteMaxSize = 3

\* 128 * (table_N[(y mod N)*N + (x mod N)] / N^2 - 0.5)
TableCoef128(px, py, matSize) ==
    LET n == IF matSize \in {2, 4, 8} THEN matSize ELSE 8
        t == BayerMat(n)[Mod(py, n) * n + Mod(px, n) + 1]
    IN  (128 * t) \div (n * n) - 64

\* C3: for every integer (x, y) and every matrixOrder, BayerCoefficient
\* returns table_N[(y mod N)*N + (x mod N)] / N^2 - 0.5 (N = matrixOrder if it
\* is 2, 4 or 8, else 8), a value in [-0.5, 0.5) unchanged when x or y is
\* shifted by N.
C3_BayerCoefficient ==
    Returned("BayerCoefficient") =>
        LET n == IF call.bayerMatSize \in {2, 4, 8} THEN call.bayerMatSize ELSE 8
        IN  /\ ~ret.panic
            /\ ret.val = TableCoef128(call.x, call.y, call.bayerMatSize)
            /\ -64 <= ret.val /\ ret.val < 64
            /\ BayerCoefficient(call.x + n, call.y, call.bayerMatSize)
                 = [panic |-> FALSE, val |-> ret.val]
            /\ BayerCoefficient(call.x, call.y + n, call.bayerMatSize)
                 = [panic |-> FALSE, val |-> ret.val]

\* BayerCoefficient on coordinates x >= 0, y >= 0: the value of C3, and the
\* same value at x + N and at y + N.
BayerCoefficientOfNonNegative ==
    (Returned("BayerCoefficient") /\ call.x >= 0 /\ call.y >= 0) =>
        LET n == IF call.bayerMatSize \in {2, 4, 8} THEN call.bayerMatSize ELSE 8
        IN  /\ ~ret.panic
            /\ ret.val = TableCoef128(call.x, call.y, call.bayerMatSize)
            /\ -64 <= ret.val /\ ret.val < 64
            /\ BayerCoefficient(call.x + n, call.y, call.bayerMatSize)
                 = [panic |-> FALSE, val |-> ret.val]
            /\ BayerCoefficient(call.x, call.y + n, call.bayerMatSize)
                 = [panic |-> FALSE, val |-> ret.val]

\* The least index of pal at the least distance from c.
FirstNearest(c, pal) ==
    CHOOSE i \in 1..Len(pal) :
        /\ \A j \in 1..Len(pal) : ColorDistance(c, pal[i]) <= ColorDistance(c, pal[j])
        /\ \A j \in 1..(i - 1) : ColorDistance(c, pal[j]) > ColorDistance(c, pal[i])

\* C4: for a non-empty palette NearestColor returns the entry at the least
\* Euclidean RGB distance from c, the one of lowest index among those at that
\* distance; with the palette [(0,0,0), (255,255,255)], (100,100,100) maps to
\* (0,0,0) and (200,200,200) to (255,255,255).
C4_NearestColor ==
    /\ (Returned("NearestColor") /\ Len(call.palette) >= 1) =>
          /\ ~ret.panic
          /\ ret.val = call.palette[FirstNearest(call.c, call.palette)]
    /\ (Returned("NearestColor") /\ call.palette = <<Gray(0), Gray(255)>>) =>
          /\ call.c = Gray(100) => ret.val = Gray(0)
          /\ call.c = Gray(200) => ret.val = Gray(255)

C4_Witness ==
    /\ Returned("NearestColor")
    /\ call.c = Gray(100)
    /\ call.palette = <<Gray(200), Gray(0), Gray(255)>>
    /\ ret.val = Gray(200)

\* trunc(clamp(c + (255 / p) * coef, 0, 255)): the q in 0 .. 255 with
\* q <= clamp(c + (255 / p) * coef, 0, 255) < q + 1, or 255 at the upper end.
ClampedTrunc(c, coef128, p) ==
    LET d == 128 * p
        v == c * d + 255 * coef128
    IN  IF v <= 0 THEN 0
        ELSE IF v >= 255 * d THEN 255
        ELSE CHOOSE q \in 0..254 : q * d <= v /\ v < (q + 1) * d

\* C5: for every colour, coordinate (x, y), paletteSize >= 1 and matrixOrder,
\* BayerDithering returns the colour whose R, G and B are
\* trunc(clamp(channel + (255 / paletteSize) * coef, 0, 255)), the same offset
\* on the three channels, each in [0, 255] without wrap-around; alpha is 255.
C5_Dithering ==
    Returned("BayerDithering") =>
        LET k == TableCoef128(call.x, call.y, call.bayerMatSize)
        IN  /\ ~ret.panic
            /\ ret.val.R = ClampedTrunc(call.c.R, k, call.paletteSize)
            /\ ret.val.G = ClampedTrunc(call.c.G, k, call.paletteSize)
            /\ ret.val.B = ClampedTrunc(call.c.B, k, call.paletteSize)
            /\ {ret.val.R, ret.val.G, ret.val.B} \subseteq 0..255
            /\ ret.val.A = 255

\* BayerDithering on coordinates x >= 0, y >= 0: the colour of C5.
DitheringOfNonNegative ==
    (Returned("BayerDithering") /\ call.x >= 0 /\ call.y >= 0) =>
        LET k == TableCoef128(call.x, call.y, call.bayerMatSize)
        IN  /\ ~ret.panic
            /\ ret.val.R = ClampedTrunc(call.c.R, k, call.paletteSize)
            /\ ret.val.G = ClampedTrunc(call.c.G, k, call.paletteSize)
            /\ ret.val.B = ClampedTrunc(call.c.B, k, call.paletteSize)
            /\ {ret.val.R, ret.val.G, ret.val.B} \subseteq 0..255
            /\ ret.val.A = 255

\* C6: for paletteMaxSize >= 1 the palette has at most paletteMaxSize entries
\* and every pixel of the returned image is one of them, so the image shows
\* at most paletteMaxSize distinct colours.
C6_AtMostMaxSizeColours ==
    (pc = "done" /\ paletteMaxSize >= 1) =>
        /\ Len(palette) <= paletteMaxSize
        /\ Range(outImage) \subseteq Range(palette)
        /\ Cardinality(Range(outImage)) <= paletteMaxSize

\* QuantizeImage returns an image of palette colours, the palette having at
\* most max(paletteMaxSize, 2) entries.
AtMostClampedSizeColours ==
    pc = "done" =>
        /\ Len(palette) <= Max2(paletteMaxSize, 2)
        /\ Range(outImage) \subseteq Range(palette)

\* C7 as stated: the uniformly gray 8x8 image with maxPaletteSize = 2 gives the
\* palette [(128,128,128), (128,128,128)], and the pixels of the output
\* alternate between two colours, the colour at (x, y) being decided by the
\* sign of the Bayer coefficient at (x, y).
C7_GrayAlternates ==
    pc = "done" =>
        /\ palette = <<Gray(128), Gray(128)>>
        /\ \E a \in Range(outImage), b \in Range(outImage) :
              /\ a # b
              /\ \A px \in 0..(img.w - 1), py \in 0..(img.h - 1) :
                    outImage[PixIndex(img, px, py)] =
                        IF BayerCoefficient(px, py, bayerMatSize).val < 0 THEN a ELSE b

\* C7 amended: the uniformly gray 8x8 image with maxPaletteSize = 2 gives the
\* palette [(128,128,128), (128,128,128)], and every pixel of the output is
\* (128,128,128) with alpha 255, whatever the Bayer coefficient at the pixel.
C7_GrayUniform ==
    /\ pc \in {"loop", "done"} => palette = <<Gray(128), Gray(128)>>
    /\ pc = "done" => \A i \in 1..64 : outImage[i] = Gray(128)

C7_Witness ==
    /\ pc = "done"
    /\ bayerMatSize = 4
    /\ Len(outImage) = 64
    /\ \E px \in 0..7, py \in 0..7 :
          /\ BayerCoefficient(px, py, bayerMatSize).val < 0
          /\ BayerDithering(PixelColor(img, px, py), px, py, 2, bayerMatSize).val # Gray(128)

\* C8: the buckets of PaletteFromImage are contiguous and cover the sorted
\* pixels: all but the last hold pixelCount / effectiveSize pixels, the last
\* one ends at pixelCount, and every pixel lies in exactly one bucket.
C8_BucketsCoverPixels ==
    (Returned("PaletteFromImage") /\ ~ret.panic) =>
        LET n == PixelCount(call.img)
            e == Len(ranges)
        IN  /\ e = Min2(Max2(call.paletteMaxSize, 2), n)
            /\ ranges[1][1] = 0
            /\ \A i \in 1..(e - 1) :
                  /\ ranges[i][2] - ranges[i][1] = n \div e
                  /\ ranges[i + 1][1] = ranges[i][2]
            /\ ranges[e][2] = n
            /\ \A j \in 0..(n - 1) :
                  Cardinality({i \in 1..e : ranges[i][1] <= j /\ j < ranges[i][2]}) = 1

\* What PaletteFromImage does: every bucket, the last one too, holds
\* pixelCount / effectiveSize pixels, and the last pixelCount % effectiveSize
\* pixels of the sorted sequence lie in no bucket.
BucketsOfEqualSize ==
    (Returned("PaletteFromImage") /\ ~ret.panic) =>
        LET n == PixelCount(call.img)
            e == Len(ranges)
        IN  /\ e = Min2(Max2(call.paletteMaxSize, 2), n)
            /\ \A i \in 1..e : ranges[i] = <<(i - 1) * (n \div e), i * (n \div e)>>

\* C9: with the pixels distributed over workers in any way and the workers'
\* steps interleaved in any way, every output cell is written at most once
\* and only by its owner, the source image and the palette stay as they were,
\* and once every cell is written the output buffer is the one the sequential
\* raster-order loop produces.
C9_ParallelEqualsSequential ==
    pc \in {"loop", "done"} =>
        /\ img = call.img
        /\ palette = PaletteFromImage(call.img, call.paletteMaxSize).val
        /\ \A i \in DOMAIN written : written[i] \in {<<>>, <<owner[i]>>}
        /\ \A i \in DOMAIN written :
              written[i] = <<>> => outImage[i] = RGBA(0, 0, 0, 0)
        /\ (\A i \in DOMAIN written : written[i] # <<>>) =>
              outImage = RasterLoop(call.img, palette, bayerMatSize, NewRGBA(call.img), 1)
        /\ pc = "done" => \A i \in DOMAIN written : written[i] = <<owner[i]>>

C9_Witness ==
    /\ pc = "done"
    /\ PixelCount(img) = 4
    /\ owner = <<2, 1, 2, 1>>
    /\ Cardinality(Range(outImage)) = 2

\* C10: every R, G, B channel of Add(c1, c2) is min(c1.channel + c2.channel,
\* 255), and the alpha is 255.
C10_AddSaturates ==
    Returned("Add") =>
        /\ ret.val.R = Min2(call.c1.R + call.c2.R, 255)
        /\ ret.val.G = Min2(call.c1.G + call.c2.G, 255)
        /\ ret.val.B = Min2(call.c1.B + call.c2.B, 255)
        /\ ret.val.A = 255

\* What Add does: every channel is the sum modulo 256.
AddWraps ==
    Returned("Add") =>
        /\ ret.val.R = (call.c1.R + call.c2.R) % 256
        /\ ret.val.G = (call.c1.G + call.c2.G) % 256
        /\ ret.val.B = (call.c1.B + call.c2.B) % 256
        /\ ret.val.A = 255

====
